---- MODULE Spec2Model ----
(***************************************************************************)
(* Tamimi hot-deals monitor: the extraction, processing and notification   *)
(* pipeline of src/scraper.py (class TamimiScraper) and of                 *)
(* src/simple_scraper.py (scrape_tamimi_deals).                            *)
(*                                                                         *)
(* Text is modelled as TLA+ strings, built the way the f-strings of the    *)
(* source build it.  TLA+ strings are ASCII: every code point of a source  *)
(* literal that lies outside ASCII (Arabic letters, emoji) is written "#", *)
(* one "#" per code point, so that len() of every text is the source's.    *)
(* Page text in the model is ASCII.  Prices are integers in hundredths of  *)
(* a currency unit (page prices carry at most two decimals).               *)
(***************************************************************************)
EXTENDS Integers, Sequences, FiniteSets, TLC

VARIABLES
    prog,            \* which program runs: "scraper" or "simple"
    pc,              \* position of the run
    creds,           \* TELEGRAM_BOT_TOKEN and TELEGRAM_CHAT_ID are both set
    page,            \* the DOM: the product containers, in page order
    products_data,   \* what page.evaluate returned
    products,        \* self.products / products
    hot_deals,       \* the products that pass the discount filter
    categorized,     \* category -> hot deals of that category, sorted
    product_counter, \* running rank number of send_telegram_alert
    cat_i,           \* index into category_order of the detail loop
    chunk_i,         \* offset i of the chunk loop
    messages,        \* the payloads handed to the notifier, in send order
    delivered,       \* per payload of messages: the notifier answered 200
    stages,          \* the pipeline stages in the order the run entered them
    classified,      \* per product: how often categorize_product ran on it
    browser,         \* the Chromium instance: "none", "open" or "closed"
    scroll_attempt,  \* fetch_page: scrolls made by the scroll loop
    same_height_count, \* fetch_page: consecutive scrolls without growth
    previous_height, \* fetch_page: the height seen by the scroll before
    observed         \* the heights the last scrolls saw, the latest last

scrolling == <<scroll_attempt, same_height_count, previous_height, observed>>

vars == <<prog, pc, creds, page, products_data, products, hot_deals,
          categorized, product_counter, cat_i, chunk_i, messages, delivered,
          stages, classified, browser, scrolling>>

-----------------------------------------------------------------------------
(* Program constants *)

MIN_DISCOUNT == 50
MAX_DISCOUNT == 99
DISCOUNT_THRESHOLD == 50
chunk_size == 8
max_scroll_attempts == 50
same_height_limit == 3
NAME_LIMIT == 100
SUMMARY_NAME_LIMIT == 20
SUMMARY_TOP == 2
SIMPLE_TOP == 5
SIMPLE_NAME_LIMIT == 50
SIMPLE_SAMPLE == 3
SIMPLE_SAMPLE_NAME_LIMIT == 30

(* The ceiling the notifier puts on one payload (spec.md, 4.5 and 6). *)
max_payload_length == 4000

(* the detail loop starting with the default category *)
category_order_others_first == <<"OTHERS", "CHEESE", "FOOD", "MEAT">>

category_order == <<"CHEESE", "FOOD", "MEAT", "OTHERS">>

category_names ==
    [CHEESE |-> "# CHEESE / #######",
     FOOD   |-> "# FOOD / ###### ########",
     MEAT   |-> "# MEAT / ######",
     OTHERS |-> "# OTHER PRODUCTS / ###### ####"]

TRANSLATIONS ==
  <<
    <<"Flour", "####">>, <<"Sugar", "###">>, <<"Rice", "###">>,
    <<"Pasta", "#######">>, <<"Bread", "###">>, <<"Milk", "####">>,
    <<"Cheese", "###">>, <<"Butter", "####">>, <<"Yogurt", "#####">>,
    <<"Labneh", "####">>, <<"Cream", "####">>, <<"Eggs", "###">>,
    <<"Chicken", "####">>, <<"Meat", "###">>, <<"Fish", "###">>,
    <<"Vegetables", "######">>, <<"Fruits", "#####">>, <<"Oil", "###">>,
    <<"Water", "###">>, <<"Juice", "####">>, <<"Coffee", "####">>,
    <<"Tea", "###">>, <<"Chocolate", "########">>, <<"Cookies", "######">>,
    <<"Chips", "#####">>, <<"Honey", "###">>, <<"Dates", "###">>,
    <<"Almarai", "#######">>, <<"Nadec", "####">>, <<"Aloula", "######">>,
    <<"Tamimi", "#######">>, <<"Saudia", "######">>, <<"Goody", "####">>,
    <<"Sunbulah", "#####">>, <<"Kuwait Bakeries", "##### ######">>, <<"Puck", "##">>,
    <<"Philadelphia", "#########">>, <<"Lurpak", "######">>, <<"President", "########">>,
    <<"Nova", "####">>, <<"Driscoll's", "#######">>, <<"Alosra", "#######">>,
    <<"Qoot & Root", "### ####">>, <<"Riyadh Food", "#### ###">>, <<"Foom", "###">>,
    <<"Greens", "#####">>, <<"Fresh", "####">>, <<"Organic", "####">>,
    <<"Full Fat", "#### #####">>, <<"Low Fat", "#### #####">>, <<"Skimmed", "##### #####">>,
    <<"With", "##">>, <<"Without", "####">>, <<"And", "#">>,
    <<"Pack", "####">>, <<"Box", "####">>, <<"Bottle", "######">>,
    <<"Bag", "###">>, <<"Can", "#####">>, <<"Jar", "######">>,
    <<"Piece", "####">>, <<"Each", "#####">>, <<"Promo", "###">>,
    <<"Offer", "### ###">>, <<"Save", "###">>, <<"Discount", "###">>,
    <<"Price", "#####">>, <<"Now", "####">>, <<"Was", "###">>,
    <<"G", "####">>, <<"Kg", "####">>, <<"ML", "##">>,
    <<"L", "###">>, <<"Cm", "##">>, <<"Inch", "####">>,
    <<"Premium", "#####">>, <<"Superior", "####">>, <<"Original", "####">>,
    <<"Classic", "######">>, <<"Regular", "####">>, <<"Extra", "#####">>,
    <<"Large", "####">>, <<"Small", "####">>, <<"Medium", "###">>,
    <<"Family", "#####">>, <<"Party", "#####">>, <<"White", "####">>,
    <<"Brown", "###">>, <<"Red", "####">>, <<"Green", "####">>,
    <<"Yellow", "####">>, <<"Blue", "####">>, <<"Black", "####">>,
    <<"Free", "#####">>, <<"Limited", "#####">>, <<"New", "####">>,
    <<"Special", "###">>, <<"Best", "####">>, <<"Value", "####">>,
    <<"Quality", "####">>
  >>

cheese_keywords ==
  <<
    "cheese", "###", "cream cheese", "mozzarella", "cheddar", "parmesan"
  >>

food_keywords ==
  <<
    "flour", "####", "sugar", "###", "rice", "###", "pasta", "#######",
    "bread", "###", "oil", "###", "water", "###", "juice", "####",
    "coffee", "####", "tea", "###", "chocolate", "########", "cookies", "######",
    "honey", "###", "dates", "###", "yogurt", "#####", "labneh", "####",
    "cream", "####", "butter", "####", "milk", "####", "eggs", "###"
  >>

meat_keywords ==
  <<
    "meat", "###", "chicken", "####", "fish", "###", "beef", "### ####",
    "lamb", "####", "veal", "###", "turkey", "### ####", "sausage", "###",
    "burger", "####", "steak", "####", "ground", "#####", "fillet", "#####"
  >>

-----------------------------------------------------------------------------
(* Text primitives: what the str methods and the regular expressions of    *)
(* both languages do on ASCII text.                                        *)

(* F(x) and F(x, y) with the arguments evaluated once, before F reads     *)
(* them: every function below works on the value of its argument, as a     *)
(* call in Python or JavaScript does.                                      *)
Apply(F(_), x) == CHOOSE r \in {F(v) : v \in {x}} : TRUE

Apply2(F(_, _), x, y) == CHOOSE r \in {F(v, w) : v \in {x}, w \in {y}} : TRUE

UPPER == "ABCDEFGHIJKLMNOPQRSTUVWXYZ"
LOWER == "abcdefghijklmnopqrstuvwxyz"
DIGITS == "0123456789"

CharAt(s, i) == SubSeq(s, i, i)

UpperChars == {CharAt(UPPER, i) : i \in 1..26}
DigitChars == {CharAt(DIGITS, i) : i \in 1..10}

LowerOf ==
    [c \in UpperChars |-> CharAt(LOWER, CHOOSE i \in 1..26 : CharAt(UPPER, i) = c)]

DigitOf ==
    [c \in DigitChars |-> (CHOOSE i \in 1..10 : CharAt(DIGITS, i) = c) - 1]

IsSpace(c) == c \in {" ", "\n", "\t"}

Min(a, b) == IF a < b THEN a ELSE b

least(S) == CHOOSE x \in S : \A y \in S : x <= y

SetMin(S) == Apply(least, S)

(* s[:n] *)
Prefix(s, n) == SubSeq(s, 1, Min(n, Len(s)))

(* s[i:] with i counted from 1 *)
Suffix(s, i) == SubSeq(s, i, Len(s))

(* The text made of f[lo], ..., f[hi], in order; the recursion halves the  *)
(* range.                                                                  *)
RECURSIVE MapChars(_, _, _)
MapChars(f, lo, hi) ==
    IF lo > hi THEN ""
    ELSE IF lo = hi THEN f[lo]
    ELSE LET halves(mid) == MapChars(f, lo, mid) \o MapChars(f, mid + 1, hi)
         IN  Apply(halves, (lo + hi) \div 2)

(* "".join(f) *)
Join(f) == IF DOMAIN f = {} THEN "" ELSE MapChars(f, 1, Len(f))

lower_chars(s) ==
    [i \in 1..Len(s) |->
        IF CharAt(s, i) \in UpperChars THEN LowerOf[CharAt(s, i)] ELSE CharAt(s, i)]

(* str.lower() *)
str_lower(s) == Apply(Join, Apply(lower_chars, s))

contains_text(text, keyword) ==
    \E i \in 1..(Len(text) - Len(keyword) + 1) :
        SubSeq(text, i, i + Len(keyword) - 1) = keyword

(* keyword in text *)
Contains(text, keyword) == Apply2(contains_text, text, keyword)

strip_text(s) ==
    LET between(S) ==
            IF S = {} THEN ""
            ELSE SubSeq(s, CHOOSE i \in S : \A j \in S : i <= j,
                           CHOOSE i \in S : \A j \in S : j <= i)
    IN  Apply(between, {i \in 1..Len(s) : ~IsSpace(CharAt(s, i))})

(* str.strip() and String.prototype.trim() *)
strip(s) == Apply(strip_text, s)

collapse_chars(s) ==
    [i \in 1..Len(s) |->
        IF ~IsSpace(CharAt(s, i)) THEN CharAt(s, i)
        ELSE IF i > 1 /\ IsSpace(CharAt(s, i - 1)) THEN ""
        ELSE " "]

(* re.sub(r'\s+', ' ', s) and s.replace(/\s+/g, ' '): every run of white   *)
(* space becomes one space                                                 *)
collapse_spaces(s) == Apply(Join, Apply(collapse_chars, s))

(* pattern.sub(rep, s) for re.compile(re.escape(english), re.IGNORECASE):  *)
(* every non-overlapping occurrence from position from on, left to right;  *)
(* ls is str_lower(s) and lpat the lower-cased pattern.                    *)
RECURSIVE sub_from(_, _, _, _, _)
sub_from(s, ls, lpat, rep, from) ==
    LET first(S) == IF S = {} THEN 0 ELSE least(S)
        at(i) == IF i = 0 THEN Suffix(s, from)
                 ELSE SubSeq(s, from, i - 1) \o rep
                      \o sub_from(s, ls, lpat, rep, i + Len(lpat))
    IN  Apply(at, Apply(first, {i \in from..(Len(s) - Len(lpat) + 1) :
                                   SubSeq(ls, i, i + Len(lpat) - 1) = lpat}))

sub_ignorecase(s, pat, rep) ==
    LET sub_lower(a, b) == sub_from(a, b[1], b[2], rep, 1)
        sub_text(t) == Apply2(sub_lower, t, <<str_lower(t), str_lower(pat)>>)
    IN  Apply(sub_text, s)

(* the length of the run of digits that starts at s[i] *)
RECURSIVE DigitRun(_, _)
DigitRun(s, i) ==
    IF i <= Len(s) /\ CharAt(s, i) \in DigitChars THEN 1 + DigitRun(s, i + 1) ELSE 0

(* parseInt of a run of digits *)
RECURSIVE parseInt(_)
parseInt(d) ==
    LET digits(t) == IF t = "" THEN 0
                     ELSE 10 * parseInt(SubSeq(t, 1, Len(t) - 1))
                          + DigitOf[CharAt(t, Len(t))]
    IN  Apply(digits, d)

NoMatch == <<>>

(* the starts of the runs of digits of text that a "%" follows *)
PercentStarts(text) ==
    {i \in 1..Len(text) :
        /\ CharAt(text, i) \in DigitChars
        /\ (i = 1 \/ CharAt(text, i - 1) \notin DigitChars)
        /\ LET e == i + DigitRun(text, i)
           IN  e <= Len(text) /\ CharAt(text, e) = "%"}

(* the value of the run of digits at the leftmost of the starts S of text, *)
(* NoMatch when there is no start                                          *)
first_number(text, S) ==
    LET number(i) == <<parseInt(SubSeq(text, i, i + DigitRun(text, i) - 1))>>
    IN  IF S = {} THEN NoMatch ELSE Apply(number, least(S))

(* text.match(/(\d+)%/): the leftmost run of digits that a "%" follows;    *)
(* <<n>> with n its value, NoMatch when there is none.                     *)
match_percent(text) ==
    LET match(t) == Apply2(first_number, t, PercentStarts(t))
    IN  Apply(match, text)

RECURSIVE SkipSpaces(_, _)
SkipSpaces(s, i) ==
    IF i <= Len(s) /\ IsSpace(CharAt(s, i)) THEN SkipSpaces(s, i + 1) ELSE i

(* text.match(/(\d+)%\s*OFF/i) *)
match_percent_off(text) ==
    LET off(t, k) == k + 2 <= Len(t) /\ str_lower(SubSeq(t, k, k + 2)) = "off"
        starts(t) == {i \in PercentStarts(t) :
                         Apply2(off, t, SkipSpaces(t, i + DigitRun(t, i) + 1))}
        match(t) == Apply2(first_number, t, starts(t))
    IN  Apply(match, text)

(* parseFloat of the first match of the price pattern (digits, an optional *)
(* ".", further digits), in hundredths.                                    *)
match_price(text) ==
    LET price(t, i) ==
            LET n    == DigitRun(t, i)
                dot  == i + n <= Len(t) /\ CharAt(t, i + n) = "."
                m    == IF dot THEN DigitRun(t, i + n + 1) ELSE 0
                frac == SubSeq(t, i + n + 1, i + n + m)
                cent == IF m = 0 THEN 0
                        ELSE IF m = 1 THEN 10 * parseInt(frac)
                        ELSE parseInt(SubSeq(frac, 1, 2))
            IN  <<100 * parseInt(SubSeq(t, i, i + n - 1)) + cent>>
        first(t, S) == IF S = {} THEN NoMatch ELSE Apply2(price, t, least(S))
        match(t) == Apply2(first, t, {i \in 1..Len(t) : CharAt(t, i) \in DigitChars})
    IN  Apply(match, text)

(* f"{x:.2f}" of a price held in hundredths *)
fmt2(x) ==
    LET a == IF x < 0 THEN -x ELSE x
        c == a % 100
    IN  (IF x < 0 THEN "-" ELSE "") \o ToString(a \div 100) \o "."
        \o (IF c < 10 THEN "0" ELSE "") \o ToString(c)

(* text.split('\n') *)
RECURSIVE split_lines(_)
split_lines(s) ==
    LET cut(t, i) == IF i = 0 THEN <<t>>
                     ELSE <<SubSeq(t, 1, i - 1)>> \o split_lines(Suffix(t, i + 1))
        first(S) == IF S = {} THEN 0 ELSE least(S)
        split(t) == Apply2(cut, t, Apply(first, {i \in 1..Len(t) : CharAt(t, i) = "\n"}))
    IN  Apply(split, s)

-----------------------------------------------------------------------------
(* The pages the runs are checked on *)

MaxPage == 2      \* pages of every mix of containers up to this length
MaxBulk == 17     \* pages of up to this many copies of one container

RECURSIVE RepStr(_, _)
RepStr(t, n) == IF n = 0 THEN "" ELSE t \o RepStr(t, n - 1)

Sell(text) == [outdated |-> FALSE, text |-> text]
Old(text) == [outdated |-> TRUE, text |-> text]

Container(badge, percentEls, brand, nameText, title, prices, extra, href) ==
    [badge |-> badge, percentEls |-> percentEls, brand |-> brand,
     nameText |-> nameText, title |-> title, prices |-> prices,
     extra |-> extra, href |-> href]

BASE_URL == "https://shop.tamimimarkets.com"

\* badge "60% OFF", both prices, a link: CHEESE
CheeseDeal ==
    Container(<<"60% OFF">>, <<>>, <<"Puck">>, <<"Cream Cheese 500G">>, <<>>,
              <<Sell("SAR 20.00"), Old("SAR 50.00")>>, <<>>,
              BASE_URL \o "/en/product/puck-cream-cheese")
\* no badge, a percent-class element, no link: FOOD
MilkDeal ==
    Container(<<>>, <<"Save 90%">>, <<>>, <<>>, <<"Almarai Milk 1L">>,
              <<Sell("SAR 5.00")>>, <<>>, "")
\* no percentage anywhere, the discount follows from the prices: MEAT
BeefDeal ==
    Container(<<>>, <<>>, <<"Fresh">>, <<"Beef Fillet">>, <<>>,
              <<Sell("SAR 30.00"), Old("SAR 60.00")>>, <<>>,
              BASE_URL \o "/en/product/beef-fillet")
\* a discount under the threshold: OTHERS
SoapDeal ==
    Container(<<"30%">>, <<>>, <<>>, <<>>, <<"Hand Soap 3x">>,
              <<Sell("SAR 7.00"), Old("SAR 10.00")>>, <<>>,
              BASE_URL \o "/en/product/hand-soap")
\* a promotional badge above 100: OTHERS
PromoBadge ==
    Container(<<"150%">>, <<>>, <<>>, <<>>, <<"Toy Robot">>,
              <<Sell("SAR 10.00")>>, <<"150% more fun">>,
              BASE_URL \o "/en/product/toy-robot")
\* a badge of "100%": OTHERS
FreeDeal ==
    Container(<<"100% OFF">>, <<>>, <<>>, <<>>, <<"Gift Card">>,
              <<Sell("SAR 1.00")>>, <<>>, "")
\* the struck price is lower than the selling price: OTHERS
PriceUp ==
    Container(<<"70% OFF">>, <<>>, <<>>, <<>>, <<"Desk Lamp">>,
              <<Sell("SAR 50.00"), Old("SAR 25.00")>>, <<>>,
              BASE_URL \o "/en/product/desk-lamp")
\* the struck price comes first in the DOM
OldFirst ==
    Container(<<"55%">>, <<>>, <<>>, <<>>, <<"Chicken Burger">>,
              <<Old("SAR 40.00"), Sell("SAR 18.00")>>, <<>>,
              BASE_URL \o "/en/product/chicken-burger")
\* no price element: not a product
NoPrice ==
    Container(<<"80% OFF">>, <<>>, <<>>, <<>>, <<"Mystery Box">>, <<>>, <<>>, "")
\* a badge of "0%" and prices that give 50: no name element, the name is the
\* first long line of the text
ZeroBadge ==
    Container(<<"0%">>, <<>>, <<>>, <<>>, <<>>,
              <<Sell("SAR 12.50"), Old("SAR 25.00")>>, <<"Olive Oil 1L">>,
              BASE_URL \o "/en/product/olive-oil")
\* a name above 100 characters and a long link: FOOD
LongDeal ==
    Container(<<"65% OFF">>, <<>>, <<>>, <<>>, <<RepStr("Basmati Rice ", 10)>>,
              <<Sell("SAR 35.00"), Old("SAR 100.00")>>, <<>>,
              BASE_URL \o "/en/product/basmati-rice?ref=" \o RepStr("0123456789", 30))

\* food and meat keywords in one name, with a character that is markup in
\* HTML: FOOD
MealDeal ==
    Container(<<"75% OFF">>, <<>>, <<>>, <<>>, <<"Chicken & Rice Meal">>,
              <<Sell("SAR 9.00"), Old("SAR 36.00")>>, <<>>, "")
\* no percentage anywhere and one price: OTHERS
NoDiscount ==
    Container(<<>>, <<>>, <<>>, <<>>, <<"Paper Towels">>,
              <<Sell("SAR 9.00")>>, <<>>, "")

\* a badge and a percent-class element that disagree: MEAT
BadgeAndOffer ==
    Container(<<"52%">>, <<"Extra 80% points">>, <<>>, <<>>, <<"Fish Fingers">>,
              <<Sell("SAR 12.00")>>, <<>>, "")
\* no badge, a percent-class element and an "N% OFF" line that disagree: OTHERS
OfferAndText ==
    Container(<<>>, <<"Offer", "Save 40%">>, <<>>, <<>>, <<"Dish Soap">>,
              <<Sell("SAR 6.00")>>, <<"70% OFF">>, "")
\* a percentage in the name, before the "N% OFF" line: FOOD
FatLabel ==
    Container(<<>>, <<>>, <<>>, <<>>, <<"Greek Yogurt 10% Fat">>,
              <<Sell("SAR 7.00"), Old("SAR 20.00")>>, <<"65% off">>, "")

Containers ==
    {CheeseDeal, MilkDeal, BeefDeal, SoapDeal, PromoBadge, FreeDeal, PriceUp,
     OldFirst, NoPrice, ZeroBadge, LongDeal, MealDeal, NoDiscount,
     BadgeAndOffer, OfferAndText, FatLabel}

BulkContainers == {CheeseDeal, LongDeal}

Badge(text, name, price, old, href) ==
    [text |-> text, name |-> name, price |-> price, old |-> old, href |-> href]

SimpleElements ==
    {Badge("70%", <<"Cheddar Block 1Kg">>, <<"SAR 15.00">>, <<"SAR 50.00">>,
           BASE_URL \o "/ar/product/cheddar"),
     Badge("50 %", <<" Dates Box ">>, <<"10.00">>, <<>>, ""),
     Badge("30% OFF", <<"Hand Soap">>, <<"7.00">>, <<"10.00">>,
           BASE_URL \o "/ar/product/soap"),
     Badge("100%", <<"Free Sample">>, <<"1.00">>, <<>>, ""),
     Badge("150%", <<"Toy Robot">>, <<"10.00">>, <<>>, ""),
     Badge("70%", <<"Desk Lamp">>, <<"50.00">>, <<"20.00">>, ""),
     Badge("NEW", <<"Notebook">>, <<"5.00">>, <<>>, ""),
     Badge("0%", <<"Plain Water">>, <<"1.00">>, <<>>, "")}

SimpleBulk ==
    {Badge("70%", <<"Cheddar Block 1Kg">>, <<"SAR 15.00">>, <<"SAR 50.00">>,
           BASE_URL \o "/ar/product/cheddar")}

SeqsUpTo(S, n) == UNION {[1..k -> S] : k \in 0..n}

Copies(e, n) == [i \in 1..n |-> e]

PagesOf(els, bulk) ==
    SeqsUpTo(els, MaxPage)
    \cup {pre \o Copies(b, n) :
            pre \in SeqsUpTo(els, 1), b \in bulk, n \in (chunk_size - 1)..MaxBulk}

Errors == {"Timeout 60000ms exceeded."}

-----------------------------------------------------------------------------
(* scraper.py: the extraction script that fetch_page evaluates in the page *)

None == <<>>

(* Python truth of an Optional[float] / JS truth of a number or null *)
Truthy(opt) == opt # None /\ opt[1] # 0

(* A product container [data-testid="product"] is a record                 *)
(*   badge      <<text>> of the [class*="Product__StyledDiscount"] element *)
(*   percentEls texts of the percent/discount/offer-class elements         *)
(*   brand, nameText, title   <<text>> of the element, <<>> when absent    *)
(*   prices     the [class*="Price__SellingPrice"] elements in DOM order,  *)
(*              each [outdated |-> its class is Price__SellingPriceOutDated,*)
(*              text |-> its text]                                         *)
(*   extra      further lines of text of the container, before the prices  *)
(*   href       href of the enclosing <a>, "" when there is none           *)

RECURSIVE JoinLines(_)
JoinLines(ls) ==
    IF ls = <<>> THEN ""
    ELSE IF Len(ls) = 1 THEN ls[1]
    ELSE ls[1] \o "\n" \o JoinLines(Tail(ls))

(* element.innerText: the texts of the container in DOM order *)
innerText(e) ==
    JoinLines(e.badge \o e.percentEls \o e.brand \o e.nameText \o e.title
              \o e.extra \o [i \in 1..Len(e.prices) |-> e.prices[i].text])


(* Math.round(((originalPrice - currentPrice) / originalPrice) * 100) *)
compute_discount(originalPrice, currentPrice) ==
    (200 * (originalPrice - currentPrice) + originalPrice) \div (2 * originalPrice)

(* the number a match captured, 0 when there is no match *)
matched(m) == IF m # NoMatch THEN m[1] ELSE 0

(* the methods with any "N%" of the text tried before "N% OFF" *)
text_discount_any_first(e) ==
    LET hit(t) == match_percent(t) # NoMatch
        first_hit(hits) == IF hits # <<>> THEN matched(match_percent(hits[1])) ELSE 0
        method1 == IF e.badge # <<>> THEN Apply(matched, match_percent(e.badge[1])) ELSE 0
        method2(d) == IF d = 0 THEN Apply(first_hit, SelectSeq(e.percentEls, hit)) ELSE d
        method3(d, allText) ==
            IF d = 0 THEN Apply(matched, match_percent_off(allText)) ELSE d
        method4(d, allText) ==
            IF d = 0 THEN Apply(matched, match_percent(allText)) ELSE d
        methods(allText) ==
            Apply2(method3, Apply2(method4, Apply(method2, method1), allText), allText)
    IN  Apply(methods, innerText(e))

(* Methods 1-4: the discount found in the text of the container; each      *)
(* method after the first runs when discount === 0                         *)
text_discount(e) ==
    LET hit(t) == match_percent(t) # NoMatch
        first_hit(hits) == IF hits # <<>> THEN matched(match_percent(hits[1])) ELSE 0
        method1 == IF e.badge # <<>> THEN Apply(matched, match_percent(e.badge[1])) ELSE 0
        method2(d) == IF d = 0 THEN Apply(first_hit, SelectSeq(e.percentEls, hit)) ELSE d
        method3(d, allText) ==
            IF d = 0 THEN Apply(matched, match_percent_off(allText)) ELSE d
        method4(d, allText) ==
            IF d = 0 THEN Apply(matched, match_percent(allText)) ELSE d
        methods(allText) ==
            Apply2(method4, Apply2(method3, Apply(method2, method1), allText), allText)
    IN  Apply(methods, innerText(e))

(* querySelector('[class*="Price__SellingPrice"]'): the first price element, *)
(* whichever of the two classes it carries                                  *)
current_price_of(e) ==
    IF e.prices # <<>> THEN Apply(matched, match_price(e.prices[1].text)) ELSE 0

(* querySelector('[class*="Price__SellingPriceOutDated"]') *)
original_price_of(e) ==
    LET isOld(p) == p.outdated
        price(old) == IF old # <<>> THEN match_price(old[1].text) ELSE None
    IN  Apply(price, SelectSeq(e.prices, isOld))

(* Method 5: the discount that the two prices give *)
discount_of(e) ==
    LET method5(discount, prices) ==
            LET currentPrice == prices[1]
                originalPrice == prices[2]
            IN  IF /\ discount = 0
                   /\ Truthy(originalPrice)
                   /\ currentPrice # 0
                   /\ originalPrice[1] > currentPrice
                THEN compute_discount(originalPrice[1], currentPrice)
                ELSE discount
    IN  Apply2(method5, text_discount(e), <<current_price_of(e), original_price_of(e)>>)

name_of(e) ==
    LET long(l) == Len(strip(l)) > 5
        first_long(name, textLines) ==
            IF textLines # <<>> THEN strip(textLines[1]) ELSE name
        or_long(name) ==
            IF Len(name) < 3
            THEN Apply2(first_long, name, SelectSeq(split_lines(innerText(e)), long))
            ELSE name
        named == IF e.brand # <<>> /\ e.nameText # <<>>
                 THEN strip(e.brand[1] \o " " \o e.nameText[1])
                 ELSE IF e.title # <<>> THEN strip(e.title[1]) ELSE ""
    IN  strip(collapse_spaces(Apply(or_long, named)))

(* the iteration that also wants a discount above 0 before it pushes *)
extract_element_discounted(e) ==
    LET item(name, currentPrice) ==
            IF name # "" /\ currentPrice > 0 /\ discount_of(e) > 0
            THEN <<[name |-> name,
                    current_price |-> currentPrice,
                    original_price |-> original_price_of(e),
                    discount_percent |-> discount_of(e),
                    url |-> e.href]>>
            ELSE <<>>
    IN  Apply2(item, name_of(e), current_price_of(e))

(* one iteration of productElements.forEach: <<item>>, or <<>> when the    *)
(* container is not pushed                                                 *)
extract_element(e) ==
    LET item(name, currentPrice) ==
            IF name # "" /\ currentPrice > 0
            THEN <<[name |-> name,
                    current_price |-> currentPrice,
                    original_price |-> original_price_of(e),
                    discount_percent |-> discount_of(e),
                    url |-> e.href]>>
            ELSE <<>>
    IN  Apply2(item, name_of(e), current_price_of(e))

(* extract_element of every container the pages hold, evaluated once *)
Extracted == [e \in Containers |-> extract_element(e)]

(* the products array that the script of lines 300-410 returns *)
RECURSIVE extract_products(_)
extract_products(els) ==
    IF els = <<>> THEN <<>>
    ELSE Extracted[Head(els)] \o extract_products(Tail(els))

-----------------------------------------------------------------------------
(* scraper.py: Product and the classifier *)

(* the loop of lines 173-176 over TRANSLATIONS[lo..hi], in dict order; the *)
(* recursion halves the range                                              *)
RECURSIVE translate(_, _, _)
translate(arabic_name, lo, hi) ==
    IF lo = hi
    THEN sub_ignorecase(arabic_name, TRANSLATIONS[lo][1], TRANSLATIONS[lo][2])
    ELSE LET rest(half, mid) == translate(half, mid + 1, hi)
             both(mid) == Apply2(rest, translate(arabic_name, lo, mid), mid)
         IN  Apply(both, (lo + hi) \div 2)

(* Product.get_arabic_name *)
get_arabic_name(name) ==
    strip(collapse_spaces(translate(name, 1, Len(TRANSLATIONS))))

AnyKeyword(name_lower, keywords) ==
    \E k \in 1..Len(keywords) : Contains(name_lower, keywords[k])

(* the classifier with the food keywords tried before the cheese keywords *)
categorize_product_food_first(name) ==
    LET category(name_lower) ==
            IF AnyKeyword(name_lower, food_keywords) THEN "FOOD"
            ELSE IF AnyKeyword(name_lower, cheese_keywords) THEN "CHEESE"
            ELSE IF AnyKeyword(name_lower, meat_keywords) THEN "MEAT"
            ELSE "OTHERS"
    IN  Apply(category, str_lower(name))

(* TamimiScraper.categorize_product *)
categorize_product(name) ==
    LET category(name_lower) ==
            IF AnyKeyword(name_lower, cheese_keywords) THEN "CHEESE"
            ELSE IF AnyKeyword(name_lower, food_keywords) THEN "FOOD"
            ELSE IF AnyKeyword(name_lower, meat_keywords) THEN "MEAT"
            ELSE "OTHERS"
    IN  Apply(category, str_lower(name))

(* the names Product objects can carry on the pages above, and the         *)
(* classifier and the translation on each of them, evaluated once          *)
ProductNames ==
    {Prefix(Extracted[e][1].name, NAME_LIMIT) : e \in {c \in Containers : Extracted[c] # <<>>}}

Categories == [name \in ProductNames |-> categorize_product(name)]

ArabicNames == [name \in ProductNames |-> get_arabic_name(name)]

(* TamimiScraper.process_products; id is the identity of the Product       *)
(* object, its index in products_data                                      *)
process_products(data) ==
    [i \in 1..Len(data) |->
        [id |-> i,
         name |-> Prefix(data[i].name, NAME_LIMIT),
         current_price |-> data[i].current_price,
         original_price |-> data[i].original_price,
         discount_percent |-> data[i].discount_percent,
         url |-> data[i].url,
         category |-> Categories[Prefix(data[i].name, NAME_LIMIT)]]]

-----------------------------------------------------------------------------
(* scraper.py: the message composer of send_telegram_alert *)

(* a sort that is not stable: of two equal keys the later one goes first *)
unstable_desc_order(keys) ==
    LET ranks(ks) ==
            [i \in DOMAIN ks |->
                Cardinality({j \in DOMAIN ks :
                    ks[j] > ks[i] \/ (ks[j] = ks[i] /\ j >= i)})]
        order(rank) == [k \in DOMAIN rank |-> CHOOSE i \in DOMAIN rank : rank[i] = k]
    IN  Apply(order, Apply(ranks, keys))

(* sorted(..., key=lambda x: x.discount_percent, reverse=True) and         *)
(* list.sort(key=..., reverse=True): a stable sort, so products of equal   *)
(* discount keep their relative order                                      *)
(* the order in which a stable descending sort puts the positions of keys: *)
(* a position comes after the positions of greater key and after the       *)
(* earlier positions of equal key                                          *)
stable_desc_order(keys) ==
    LET ranks(ks) ==
            [i \in DOMAIN ks |->
                Cardinality({j \in DOMAIN ks :
                    ks[j] > ks[i] \/ (ks[j] = ks[i] /\ j <= i)})]
        order(rank) == [k \in DOMAIN rank |-> CHOOSE i \in DOMAIN rank : rank[i] = k]
    IN  Apply(order, Apply(ranks, keys))

sort_by_discount(ps) ==
    LET by(list, order) == [k \in 1..Len(list) |-> list[order[k]]]
        sorted(list) ==
            Apply2(by, list,
                   stable_desc_order([i \in 1..Len(list) |-> list[i].discount_percent]))
    IN  Apply(sorted, ps)

(* the filter with the lower bound excluded *)
is_hot_deal_exclusive(p) ==
    MIN_DISCOUNT < p.discount_percent /\ p.discount_percent <= MAX_DISCOUNT

(* hot_deals = [p for p in products if MIN_DISCOUNT <= p.discount_percent <= MAX_DISCOUNT] *)
is_hot_deal(p) ==
    MIN_DISCOUNT <= p.discount_percent /\ p.discount_percent <= MAX_DISCOUNT

(* a filter that lets every product through *)
filter_hot_deals_all(ps) == ps

filter_hot_deals(ps) == SelectSeq(ps, is_hot_deal)

(* the categorized dict after lines 598-612 *)
categorize_hot_deals(deals) ==
    [cat \in {"CHEESE", "FOOD", "MEAT", "OTHERS"} |->
        LET inCat(p) == Categories[p.name] = cat
        IN  sort_by_discount(SelectSeq(deals, inCat))]

range_text == ToString(MIN_DISCOUNT) \o "-" \o ToString(MAX_DISCOUNT)

(* the no-deals text with the number of hot deals, 0, where the number of *)
(* scanned products belongs                                              *)
no_deals_message_hot_count(n_products) ==
    "# <b>Tamimi Monitor - No " \o range_text \o "% Deals</b>\n"
    \o "# <b>##### ####### - ## #### #### " \o range_text \o "%</b>\n\n"
    \o "# Total products scanned: <b>" \o ToString(0) \o "</b>\n"
    \o "# ###### ######## ########: <b>" \o ToString(0) \o "</b>"

(* the payload of lines 591-594 *)
no_deals_message(n_products) ==
    "# <b>Tamimi Monitor - No " \o range_text \o "% Deals</b>\n"
    \o "# <b>##### ####### - ## #### #### " \o range_text \o "%</b>\n\n"
    \o "# Total products scanned: <b>" \o ToString(n_products) \o "</b>\n"
    \o "# ###### ######## ########: <b>" \o ToString(n_products) \o "</b>"

(* the payload of line 712 *)
error_msg ==
    "## <b>Tamimi Monitor Error</b>\n## <b>### ## ##### #######</b>\n\n"
    \o "No products were found on the page. Check the debug files.\n"
    \o "## ### ###### ### ###### ## ######. #### ## ##### #######."

(* lines 641-644: the top products of one category in the summary *)
RECURSIVE summary_top(_, _)
summary_top(items, i) ==
    IF i > Min(SUMMARY_TOP, Len(items)) THEN ""
    ELSE "  " \o ToString(i) \o ". " \o Prefix(items[i].name, SUMMARY_NAME_LIMIT)
         \o "... (" \o ToString(items[i].discount_percent) \o "%)\n"
         \o "     " \o Prefix(ArabicNames[items[i].name], SUMMARY_NAME_LIMIT)
         \o "...\n"
         \o summary_top(items, i + 1)

(* lines 637-648: the block of one category in the summary *)
summary_category(cat, items) ==
    IF items = <<>> THEN ""
    ELSE "<b>" \o category_names[cat] \o ": " \o ToString(Len(items)) \o " items</b>\n"
         \o summary_top(items, 1)
         \o (IF Len(items) > SUMMARY_TOP
             THEN "     ... and " \o ToString(Len(items) - SUMMARY_TOP) \o " more\n"
                  \o "     ... # " \o ToString(Len(items) - SUMMARY_TOP) \o " #### ###\n"
             ELSE "")
         \o "\n"

RECURSIVE summary_categories(_, _)
summary_categories(cats, k) ==
    IF k > Len(category_order) THEN ""
    ELSE summary_category(category_order[k], cats[category_order[k]])
         \o summary_categories(cats, k + 1)

(* the payload of lines 620-651 *)
summary_message(n_products, n_hot, cats) ==
    "### <b>MASSIVE " \o range_text \o "% DISCOUNTS!</b> ###\n"
    \o "### <b>###### #### " \o range_text \o "%!</b> ###\n\n"
    \o "# Scanned <b>" \o ToString(n_products) \o "</b> total products\n"
    \o "# ## ### <b>" \o ToString(n_products) \o "</b> #### #######\n"
    \o "# Found <b>" \o ToString(n_hot) \o "</b> items with " \o range_text \o "% off!\n"
    \o "# ## ###### ### <b>" \o ToString(n_hot) \o "</b> #### #### " \o range_text \o "%!\n\n"
    \o summary_categories(cats, 1)
    \o "# <b>Detailed lists by category in following messages</b>\n"
    \o "# <b>####### ######### ### ##### ## ####### #######</b>\n"

(* lines 675-686: one product of a detail payload, shown with number j *)
detail_entry(j, product) ==
    "<b>" \o ToString(j) \o ".</b> " \o product.name \o "\n"
    \o "<b>" \o ToString(j) \o ".</b> " \o ArabicNames[product.name] \o "\n"
    \o "   <b>" \o ToString(product.discount_percent) \o "%</b> off | ### <b>"
    \o ToString(product.discount_percent) \o "%</b>\n"
    \o (IF Truthy(product.original_price)
        THEN "   <s>" \o fmt2(product.original_price[1]) \o "</s> # "
             \o fmt2(product.current_price) \o " SAR\n"
        ELSE "   Now " \o fmt2(product.current_price) \o " SAR | #### "
             \o fmt2(product.current_price) \o " ####\n")
    \o (IF product.url # ""
        THEN "   <a href='" \o product.url \o "'># View Product | ### ######</a>\n"
        ELSE "")
    \o "\n"

RECURSIVE detail_entries(_, _)
detail_entries(chunk, start_num) ==
    IF chunk = <<>> THEN ""
    ELSE detail_entry(start_num, Head(chunk)) \o detail_entries(Tail(chunk), start_num + 1)

(* category_names[cat].split(" / ")[0] *)
cat_name(cat) ==
    LET full == category_names[cat]
        at == SetMin({i \in 1..(Len(full) - 2) : SubSeq(full, i, i + 2) = " / "})
    IN  SubSeq(full, 1, at - 1)

(* the payload of lines 668-686 *)
detail_message(cat, chunk, start_num, n_hot) ==
    "<b>" \o cat_name(cat) \o " - Items " \o ToString(start_num) \o "-"
    \o ToString(start_num + Len(chunk) - 1) \o " of " \o ToString(n_hot) \o "</b>\n\n"
    \o detail_entries(chunk, start_num)

(* a slice that ends one product early *)
chunk_at_short(items, i) == SubSeq(items, i + 1, Min(i + chunk_size - 1, Len(items)))

(* categorized[cat][i:i+chunk_size], i counted from 0 *)
chunk_at(items, i) == SubSeq(items, i + 1, Min(i + chunk_size, Len(items)))

(* A payload as handed to _send_telegram_message: its text, and for a      *)
(* detail payload the (number, product) pairs that the loop of lines       *)
(* 674-686 rendered into it.                                               *)
Payload(kind, text, cat, entries) ==
    [kind |-> kind, text |-> text, parse_mode |-> "HTML", cat |-> cat,
     entries |-> entries]

(* a detail payload whose numbering starts again at 1 *)
detail_payload_renumbered(cat, chunk, start_num, n_hot) ==
    Payload("detail", detail_message(cat, chunk, 1, n_hot), cat,
            [k \in 1..Len(chunk) |-> [num |-> k, product |-> chunk[k]]])

detail_payload(cat, chunk, start_num, n_hot) ==
    Payload("detail", detail_message(cat, chunk, start_num, n_hot), cat,
            [k \in 1..Len(chunk) |-> [num |-> start_num + k - 1, product |-> chunk[k]]])

-----------------------------------------------------------------------------
(* simple_scraper.py: extraction, filter and composer *)

(* A discount element (line 56) is a record                                *)
(*   text   its innerText                                                  *)
(*   name, price, old   <<text>> of the first name / price / struck-price  *)
(*          element of its container, <<>> when there is none              *)
(*   href   href of the container's product link, "" when there is none    *)

(* text.match of line 63: digits, optional white space, a percent sign *)
match_percent_sign(text) ==
    LET sign(t, k) == k <= Len(t) /\ CharAt(t, k) = "%"
        starts(t) == {i \in 1..Len(t) :
                         /\ CharAt(t, i) \in DigitChars
                         /\ (i = 1 \/ CharAt(t, i - 1) \notin DigitChars)
                         /\ Apply2(sign, t, SkipSpaces(t, i + DigitRun(t, i)))}
        match(t) == Apply2(first_number, t, starts(t))
    IN  Apply(match, text)

(* A JS number as a fraction <<numerator, denominator>> of hundredths;     *)
(* denominator 0 is Infinity (line 120 divides by 100 - discount).         *)
Fraction(n, d) == <<n, d>>

(* originalPrice || (price * 100 / (100 - discount)) *)
simple_original(originalPrice, price, discount) ==
    IF originalPrice # 0 THEN Fraction(originalPrice, 1)
    ELSE Fraction(price * 100, 100 - discount)

(* one iteration of discountElements.forEach *)
simple_extract_element(e) ==
    LET name == IF e.name # <<>> THEN e.name[1] ELSE ""
        price == IF e.price # <<>> THEN Apply(matched, match_price(e.price[1])) ELSE 0
        originalPrice == IF e.old # <<>> THEN Apply(matched, match_price(e.old[1])) ELSE 0
        deal(m, prices) ==
            IF m # NoMatch /\ name # "" /\ prices[1] > 0 /\ m[1] > 0
            THEN <<[name |-> strip(name),
                    current_price |-> prices[1],
                    original_price |-> simple_original(prices[2], prices[1], m[1]),
                    discount |-> m[1],
                    url |-> e.href]>>
            ELSE <<>>
    IN  Apply2(deal, match_percent_sign(e.text), <<price, originalPrice>>)

(* simple_extract_element of every element the pages hold, evaluated once *)
SimpleExtracted == [e \in SimpleElements |-> simple_extract_element(e)]

(* the deals array that the script of lines 52-128 returns *)
RECURSIVE simple_extract(_)
simple_extract(els) ==
    IF els = <<>> THEN <<>>
    ELSE SimpleExtracted[Head(els)] \o simple_extract(Tail(els))

(* lines 134-137: filter, then hot_deals.sort(key=discount, reverse=True) *)
simple_is_hot(p) == p.discount >= DISCOUNT_THRESHOLD

simple_hot_deals(ps) ==
    LET by(hot, order) == [k \in 1..Len(hot) |-> hot[order[k]]]
        sorted(hot) ==
            Apply2(by, hot, stable_desc_order([i \in 1..Len(hot) |-> hot[i].discount]))
    IN  Apply(sorted, SelectSeq(ps, simple_is_hot))

(* f"{x:.2f}" of a fraction of hundredths *)
fmt2_fraction(f) ==
    IF f[2] = 0 THEN "inf"
    ELSE LET neg == (f[1] < 0) # (f[2] < 0)
             n == IF f[1] < 0 THEN -f[1] ELSE f[1]
             d == IF f[2] < 0 THEN -f[2] ELSE f[2]
             r == (2 * n + d) \div (2 * d)
         IN  fmt2(IF neg THEN -r ELSE r)

RECURSIVE simple_deal_lines(_, _)
simple_deal_lines(deals, i) ==
    IF i > Min(SIMPLE_TOP, Len(deals)) THEN ""
    ELSE "*" \o ToString(i) \o ". " \o Prefix(deals[i].name, SIMPLE_NAME_LIMIT) \o "*\n"
         \o (IF deals[i].original_price[1] # 0
             THEN "   ~~" \o fmt2_fraction(deals[i].original_price) \o "~~ # "
             ELSE "")
         \o "*" \o fmt2(deals[i].current_price) \o " SAR*"
         \o "  (-" \o ToString(deals[i].discount) \o "% #)\n\n"
         \o simple_deal_lines(deals, i + 1)

RECURSIVE simple_samples(_, _)
simple_samples(ps, i) ==
    IF i > Min(SIMPLE_SAMPLE, Len(ps)) THEN ""
    ELSE "# " \o Prefix(ps[i].name, SIMPLE_SAMPLE_NAME_LIMIT) \o "... - "
         \o ToString(ps[i].discount) \o "% off\n"
         \o simple_samples(ps, i + 1)

greatest(S) == CHOOSE x \in S : \A y \in S : y <= x

SetMax(S) == Apply(greatest, S)

(* the text that send_telegram_message composes (lines 163-195) *)
simple_message(all_products, deals) ==
    IF deals # <<>>
    THEN "# *##### ###### - #### #####* #\n"
         \o "# *TAMIMIMARKETS - HOT DEALS* #\n\n"
         \o "# ##### *" \o ToString(Len(deals)) \o "* #### ###### #"
         \o ToString(DISCOUNT_THRESHOLD) \o "%\n"
         \o "# Found *" \o ToString(Len(deals)) \o "* items with #"
         \o ToString(DISCOUNT_THRESHOLD) \o "% off\n\n"
         \o simple_deal_lines(deals, 1)
         \o (IF Len(deals) > SIMPLE_TOP
             THEN "...# " \o ToString(Len(deals) - SIMPLE_TOP) \o " #### ####!\n"
             ELSE "")
    ELSE "# *Tamimi Monitor - Scan Results*\n\n"
         \o "# Total products found: " \o ToString(Len(all_products)) \o "\n"
         \o (IF all_products # <<>>
             THEN LET discounts == {all_products[i].discount : i \in 1..Len(all_products)}
                  IN  "\n# Discount range found: "
                      \o ToString(SetMin(discounts)) \o "% - "
                      \o ToString(SetMax(discounts)) \o "%\n\n"
                      \o "*Sample products:*\n"
                      \o simple_samples(all_products, 1)
             ELSE "\n## No products found. The website structure may have changed.\n"
                  \o "Check the screenshot in GitHub Actions artifacts.")

(* the text of send_error_message (line 212); its two backquotes are      *)
(* written as single quotes                                                *)
simple_error_message(error) == "## *Tamimi Monitor Error*\n\n'" \o error \o "'"

SimplePayload(kind, text) ==
    [kind |-> kind, text |-> text, parse_mode |-> "Markdown", cat |-> "",
     entries |-> <<>>]

-----------------------------------------------------------------------------
(* The runs *)

NoCategories == [cat \in {"CHEESE", "FOOD", "MEAT", "OTHERS"} |-> <<>>]

Init ==
    /\ prog \in {"scraper", "simple"}
    /\ pc = "run"
    /\ creds \in (IF prog = "scraper" THEN BOOLEAN ELSE {TRUE})
    /\ page \in (IF prog = "scraper" THEN PagesOf(Containers, BulkContainers)
                 ELSE PagesOf(SimpleElements, SimpleBulk))
    /\ products_data = <<>>
    /\ products = <<>>
    /\ hot_deals = <<>>
    /\ categorized = NoCategories
    /\ product_counter = 0
    /\ cat_i = 0
    /\ chunk_i = 0
    /\ messages = <<>>
    /\ delivered = <<>>
    /\ stages = <<>>
    /\ classified = <<>>
    /\ browser = "none"
    /\ scroll_attempt = 0
    /\ same_height_count = 0
    /\ previous_height = 0
    /\ observed = <<>>

(* what requests.post does with a payload: the notifier answers 200, it    *)
(* answers another status, or the call raises                              *)
Outcomes == {"200", "400", "raises"}

(* the return value of _send_telegram_message, lines 485-495 *)
send_result(outcome) == outcome = "200"

(* a notifier that is not called again once a payload has failed *)
SendUntilFailure(payload) ==
    IF \E k \in 1..Len(delivered) : ~delivered[k]
    THEN UNCHANGED <<messages, delivered>>
    ELSE /\ messages' = Append(messages, payload)
         /\ \E outcome \in Outcomes : delivered' = Append(delivered, send_result(outcome))

(* TamimiScraper._send_telegram_message(message) *)
Send(payload) ==
    /\ messages' = Append(messages, payload)
    /\ \E outcome \in Outcomes : delivered' = Append(delivered, send_result(outcome))

(* the run goes on in a stage: the stage is entered unless the run is in it *)
Enter(trace, stage) ==
    IF trace # <<>> /\ trace[Len(trace)] = stage THEN trace ELSE Append(trace, stage)

(* Enter for every stage of entered, in order: of the stages of trace and *)
(* of entered, those stay that differ from the stage before them          *)
EnterAll(trace, entered) ==
    LET pick(all, kept) ==
            [i \in 1..Cardinality(kept) |->
                all[CHOOSE k \in kept : Cardinality({j \in kept : j <= k}) = i]]
        changes(all) ==
            Apply2(pick, all, {k \in 1..Len(all) : k = 1 \/ all[k] # all[k - 1]})
    IN  Apply(changes, trace \o entered)

(* a payload is composed and handed to the notifier *)
ComposeAndDeliver(trace) == EnterAll(trace, <<"composition", "delivery">>)

(* the loop of process_products, lines 449-465: every item is made a       *)
(* Product (453-458) and classified (460) before the next item is looked at *)
process_stages(n) ==
    [k \in 1..(2 * n) |-> IF k % 2 = 1 THEN "extraction" ELSE "classification"]

(* send_telegram_alert reading the category that process_products stored  *)
classify_again_skipped(counts, deals) == counts

(* lines 606-608: categorize_product runs on every hot deal *)
classify_again(counts, deals) ==
    [i \in DOMAIN counts |->
        counts[i] + Cardinality({j \in 1..Len(deals) : deals[j].id = i})]

(* lines 229-246: launching Chromium, or opening the context or the page,  *)
(* raises; these calls stand before the try statement of line 248, so the  *)
(* exception leaves fetch_page, run and main.  Chromium was launched,     *)
(* and is not closed, unless it was the launch that raised.                *)
LaunchRaises ==
    /\ prog = "scraper" /\ pc = "run"
    /\ browser' \in {"none", "open"}
    /\ stages' = Enter(stages, "acquisition")
    /\ pc' = "raised"
    /\ UNCHANGED <<prog, creds, page, products_data, products, hot_deals,
                   categorized, product_counter, cat_i, chunk_i, messages,
                   delivered, classified, scrolling>>

(* TamimiScraper.fetch_page, called at line 707: wait_for_selector raises  *)
(* when the page shows no product container, and any step may raise; the   *)
(* except clause returns [], the finally clause closes the browser.        *)
FetchPage(raises) ==
    /\ prog = "scraper" /\ pc = "run"
    /\ products_data' = IF raises \/ page = <<>> THEN <<>> ELSE extract_products(page)
    /\ \E reached \in (IF page = <<>> THEN {1} ELSE IF raises THEN {1, 2} ELSE {2}) :
          stages' = EnterAll(stages, SubSeq(<<"acquisition", "extraction">>, 1, reached))
    /\ browser' = "closed"
    /\ pc' = "fetched"
    /\ UNCHANGED <<prog, creds, page, products, hot_deals, categorized,
                   product_counter, cat_i, chunk_i, messages, delivered,
                   classified, scrolling>>

(* the error notification sent whether or not the credentials are set *)
NoProductsUnguarded ==
    /\ prog = "scraper" /\ pc = "fetched"
    /\ products_data = <<>>
    /\ Send(Payload("error", error_msg, "", <<>>))
    /\ stages' = ComposeAndDeliver(stages)
    /\ pc' = "done"
    /\ UNCHANGED <<prog, creds, page, products_data, products, hot_deals,
                   categorized, product_counter, cat_i, chunk_i, classified,
                   browser, scrolling>>

(* TamimiScraper.run, lines 708-714 *)
NoProducts ==
    /\ prog = "scraper" /\ pc = "fetched"
    /\ products_data = <<>>
    /\ IF creds
       THEN /\ Send(Payload("error", error_msg, "", <<>>))
            /\ stages' = ComposeAndDeliver(stages)
       ELSE UNCHANGED <<messages, delivered, stages>>
    /\ pc' = "done"
    /\ UNCHANGED <<prog, creds, page, products_data, products, hot_deals,
                   categorized, product_counter, cat_i, chunk_i, classified,
                   browser, scrolling>>

(* TamimiScraper.run, line 716 *)
ProcessProducts ==
    /\ prog = "scraper" /\ pc = "fetched"
    /\ products_data # <<>>
    /\ products' = process_products(products_data)
    /\ classified' = [i \in 1..Len(products_data) |-> 1]
    /\ stages' = EnterAll(stages, process_stages(Len(products_data)))
    /\ pc' = "alert"
    /\ UNCHANGED <<prog, creds, page, products_data, hot_deals, categorized,
                   product_counter, cat_i, chunk_i, messages, delivered,
                   browser, scrolling>>

(* send_telegram_alert, lines 578-580 *)
AlertNoCredentials ==
    /\ prog = "scraper" /\ pc = "alert"
    /\ ~creds
    /\ pc' = "done"
    /\ UNCHANGED <<prog, creds, page, products_data, products, hot_deals,
                   categorized, product_counter, cat_i, chunk_i, messages,
                   delivered, stages, classified, browser, scrolling>>

(* send_telegram_alert, lines 586-596 *)
AlertNoDeals ==
    /\ prog = "scraper" /\ pc = "alert"
    /\ creds
    /\ filter_hot_deals(products) = <<>>
    /\ hot_deals' = <<>>
    /\ Send(Payload("nodeals", no_deals_message(Len(products)), "", <<>>))
    /\ stages' = ComposeAndDeliver(stages)
    /\ pc' = "done"
    /\ UNCHANGED <<prog, creds, page, products_data, products, categorized,
                   product_counter, cat_i, chunk_i, classified, browser,
                   scrolling>>

(* send_telegram_alert, lines 586-657: filter, categorize, sort, summary *)
AlertSummary ==
    /\ prog = "scraper" /\ pc = "alert"
    /\ creds
    /\ filter_hot_deals(products) # <<>>
    /\ hot_deals' = filter_hot_deals(products)
    /\ categorized' = categorize_hot_deals(hot_deals')
    /\ classified' = classify_again(classified, hot_deals')
    /\ Send(Payload("summary",
                    summary_message(Len(products), Len(hot_deals'), categorized'),
                    "", <<>>))
    /\ stages' = ComposeAndDeliver(Enter(stages, "classification"))
    /\ product_counter' = 1
    /\ cat_i' = 1
    /\ chunk_i' = 0
    /\ pc' = "details"
    /\ UNCHANGED <<prog, creds, page, products_data, products, browser,
                   scrolling>>

(* lines 665-690: one iteration of the chunk loop *)
SendChunk ==
    /\ prog = "scraper" /\ pc = "details"
    /\ cat_i <= Len(category_order)
    /\ chunk_i < Len(categorized[category_order[cat_i]])
    /\ LET cat == category_order[cat_i]
           chunk == chunk_at(categorized[cat], chunk_i)
       IN  /\ Send(detail_payload(cat, chunk, product_counter, Len(hot_deals)))
           /\ product_counter' = product_counter + Len(chunk)
    /\ stages' = ComposeAndDeliver(stages)
    /\ chunk_i' = chunk_i + chunk_size
    /\ UNCHANGED <<prog, pc, creds, page, products_data, products, hot_deals,
                   categorized, cat_i, classified, browser, scrolling>>

(* lines 659-661 and the end of range(): on to the next category *)
NextCategory ==
    /\ prog = "scraper" /\ pc = "details"
    /\ cat_i <= Len(category_order)
    /\ chunk_i >= Len(categorized[category_order[cat_i]])
    /\ cat_i' = cat_i + 1
    /\ chunk_i' = 0
    /\ UNCHANGED <<prog, pc, creds, page, products_data, products, hot_deals,
                   categorized, product_counter, messages, delivered, stages,
                   classified, browser, scrolling>>

(* line 692: the category loop is over *)
AlertDone ==
    /\ prog = "scraper" /\ pc = "details"
    /\ cat_i > Len(category_order)
    /\ pc' = "done"
    /\ UNCHANGED <<prog, creds, page, products_data, products, hot_deals,
                   categorized, product_counter, cat_i, chunk_i, messages,
                   delivered, stages, classified, browser, scrolling>>

(* scrape_tamimi_deals, lines 36-137: load, extract, filter, sort *)
SimpleScrape ==
    /\ prog = "simple" /\ pc = "run"
    /\ products' = simple_extract(page)
    /\ hot_deals' = simple_hot_deals(products')
    /\ stages' = EnterAll(stages, <<"acquisition", "extraction">>)
    /\ browser' = "open"
    /\ pc' = "send"
    /\ UNCHANGED <<prog, creds, page, products_data, categorized,
                   product_counter, cat_i, chunk_i, messages, delivered,
                   classified, scrolling>>

(* scrape_tamimi_deals, lines 30-33: chromium.launch and new_page stand     *)
(* before the try statement of line 35, so an exception raised by either   *)
(* leaves the function: no except clause runs, no message is sent, and a   *)
(* browser that was launched is not closed by the finally clause.          *)
SimpleLaunchRaises ==
    /\ prog = "simple" /\ pc = "run"
    /\ browser' \in {"none", "open"}
    /\ stages' = Enter(stages, "acquisition")
    /\ pc' = "raised"
    /\ UNCHANGED <<prog, creds, page, products_data, products, hot_deals,
                   categorized, product_counter, cat_i, chunk_i, messages,
                   delivered, classified, scrolling>>

(* an exception inside the try block before line 140 *)
SimpleScrapeRaises ==
    /\ prog = "simple" /\ pc = "run"
    /\ stages' = Enter(stages, "acquisition")
    /\ browser' = "open"
    /\ pc' = "except"
    /\ UNCHANGED <<prog, creds, page, products_data, products, hot_deals,
                   categorized, product_counter, cat_i, chunk_i, messages,
                   delivered, classified, scrolling>>

(* send_telegram_message, line 140 *)
SimpleSend ==
    /\ prog = "simple" /\ pc = "send"
    /\ Send(SimplePayload("results", simple_message(products, hot_deals)))
    /\ stages' = ComposeAndDeliver(stages)
    /\ pc' = "save"
    /\ UNCHANGED <<prog, creds, page, products_data, products, hot_deals,
                   categorized, product_counter, cat_i, chunk_i, classified,
                   browser, scrolling>>

(* lines 143-151: write the file and return, or raise while writing; the   *)
(* finally clause closes the browser on return                             *)
SimpleSave(raises) ==
    /\ prog = "simple" /\ pc = "save"
    /\ pc' = IF raises THEN "except" ELSE "done"
    /\ browser' = IF raises THEN browser ELSE "closed"
    /\ UNCHANGED <<prog, creds, page, products_data, products, hot_deals,
                   categorized, product_counter, cat_i, chunk_i, messages,
                   delivered, stages, classified, scrolling>>

(* an except clause that stays silent once the results message has gone out *)
SimpleExceptOnce ==
    /\ prog = "simple" /\ pc = "except"
    /\ IF messages = <<>>
         THEN \E error \in Errors : Send(SimplePayload("error", simple_error_message(error)))
         ELSE UNCHANGED <<messages, delivered>>
    /\ stages' = ComposeAndDeliver(stages)
    /\ browser' = "closed"
    /\ pc' = "done"
    /\ UNCHANGED <<prog, creds, page, products_data, products, hot_deals,
                   categorized, product_counter, cat_i, chunk_i, classified,
                   scrolling>>

(* lines 153-158: send_error_message, return [], close the browser *)
SimpleExcept ==
    /\ prog = "simple" /\ pc = "except"
    /\ \E error \in Errors : Send(SimplePayload("error", simple_error_message(error)))
    /\ stages' = ComposeAndDeliver(stages)
    /\ browser' = "closed"
    /\ pc' = "done"
    /\ UNCHANGED <<prog, creds, page, products_data, products, hot_deals,
                   categorized, product_counter, cat_i, chunk_i, classified,
                   scrolling>>

Next ==
    \/ LaunchRaises
    \/ \E raises \in BOOLEAN : FetchPage(raises)
    \/ NoProducts
    \/ ProcessProducts
    \/ AlertNoCredentials
    \/ AlertNoDeals
    \/ AlertSummary
    \/ SendChunk
    \/ NextCategory
    \/ AlertDone
    \/ SimpleLaunchRaises
    \/ SimpleScrape
    \/ SimpleScrapeRaises
    \/ SimpleSend
    \/ \E raises \in BOOLEAN : SimpleSave(raises)
    \/ SimpleExcept

Spec == Init /\ [][Next]_vars

-----------------------------------------------------------------------------
(* The scroll loop of fetch_page, lines 260-290, step by step *)

MaxHeight == 2    \* document.body.scrollHeight is one of 1..MaxHeight

(* observed keeps the heights of as many scrolls as the end test of the   *)
(* loop looks back on: same_height_limit scrolls and the one before them  *)
Window == same_height_limit + 1

Heights == 1..MaxHeight

(* lines 249-263: the page is loaded, a product container has shown, the  *)
(* loop variables are set                                                 *)
ScrollInit ==
    /\ prog = "scraper"
    /\ pc = "scroll"
    /\ creds \in BOOLEAN
    /\ page \in {<<CheeseDeal>>, <<CheeseDeal, MilkDeal>>}
    /\ products_data = <<>>
    /\ products = <<>>
    /\ hot_deals = <<>>
    /\ categorized = NoCategories
    /\ product_counter = 0
    /\ cat_i = 0
    /\ chunk_i = 0
    /\ messages = <<>>
    /\ delivered = <<>>
    /\ stages = <<"acquisition">>
    /\ classified = <<>>
    /\ browser = "open"
    /\ scroll_attempt = 0
    /\ same_height_count = 0
    /\ previous_height = 0
    /\ observed = <<>>

Observe(heights, current_height) ==
    LET all == Append(heights, current_height)
    IN  IF Len(all) > Window THEN Tail(all) ELSE all

(* one iteration in which the counter is kept when the height changes *)
ScrollNoReset(current_height) ==
    /\ pc = "scroll"
    /\ scroll_attempt < max_scroll_attempts
    /\ scroll_attempt' = scroll_attempt + 1
    /\ observed' = Observe(observed, current_height)
    /\ same_height_count' =
          IF current_height = previous_height THEN same_height_count + 1
          ELSE same_height_count
    /\ IF current_height = previous_height /\ same_height_count' >= same_height_limit
       THEN pc' = "scrolled" /\ UNCHANGED previous_height
       ELSE pc' = pc /\ previous_height' = current_height
    /\ UNCHANGED <<prog, creds, page, products_data, products, hot_deals,
                   categorized, product_counter, cat_i, chunk_i, messages,
                   delivered, stages, classified, browser>>

(* lines 265-290: one iteration of the while loop, in which the page is   *)
(* current_height high after the scroll                                   *)
Scroll(current_height) ==
    /\ pc = "scroll"
    /\ scroll_attempt < max_scroll_attempts
    /\ scroll_attempt' = scroll_attempt + 1
    /\ observed' = Observe(observed, current_height)
    /\ same_height_count' =
          IF current_height = previous_height THEN same_height_count + 1 ELSE 0
    /\ IF current_height = previous_height /\ same_height_count' >= same_height_limit
       THEN pc' = "scrolled" /\ UNCHANGED previous_height
       ELSE pc' = pc /\ previous_height' = current_height
    /\ UNCHANGED <<prog, creds, page, products_data, products, hot_deals,
                   categorized, product_counter, cat_i, chunk_i, messages,
                   delivered, stages, classified, browser>>

(* line 265: the condition of the while loop is false *)
ScrollExhausted ==
    /\ pc = "scroll"
    /\ scroll_attempt >= max_scroll_attempts
    /\ pc' = "scrolled"
    /\ UNCHANGED <<prog, creds, page, products_data, products, hot_deals,
                   categorized, product_counter, cat_i, chunk_i, messages,
                   delivered, stages, classified, browser, scrolling>>

(* a call of the iteration (lines 269-276) raises: the except clause      *)
(* returns [], the finally clause closes the browser                      *)
ScrollRaises ==
    /\ pc = "scroll"
    /\ scroll_attempt < max_scroll_attempts
    /\ scroll_attempt' = scroll_attempt + 1
    /\ browser' = "closed"
    /\ pc' = "fetched"
    /\ UNCHANGED <<prog, creds, page, products_data, products, hot_deals,
                   categorized, product_counter, cat_i, chunk_i, messages,
                   delivered, stages, classified, same_height_count,
                   previous_height, observed>>

ScrollNext ==
    \/ \E current_height \in Heights : Scroll(current_height)
    \/ ScrollExhausted
    \/ ScrollRaises

(* every await of an iteration returns or raises: the waits of lines 272  *)
(* and 290 are timed, so an iteration that can be made is made            *)
ScrollSpec == ScrollInit /\ [][ScrollNext]_vars /\ WF_vars(ScrollNext)

-----------------------------------------------------------------------------
(* Properties of the runs *)

(* the detail payloads, in send order *)
Details ==
    LET isDetail(m) == m.kind = "detail" IN SelectSeq(messages, isDetail)

RECURSIVE ConcatEntries(_)
ConcatEntries(ms) ==
    IF ms = <<>> THEN <<>> ELSE Head(ms).entries \o ConcatEntries(Tail(ms))

(* the (number, product) pairs of all detail payloads, in send order *)
Rendered == ConcatEntries(Details)

Ceil(n, k) == (n + k - 1) \div k

(* send_telegram_alert got past its credentials check and filtered *)
AlertFiltered ==
    prog = "scraper" /\ creds /\ products # <<>> /\ pc \in {"details", "done"}

(* send_telegram_alert returned after the summary and all detail payloads *)
AlertSentDeals == AlertFiltered /\ pc = "done" /\ hot_deals # <<>>

(* send_telegram_message of simple_scraper.py has just returned *)
SimpleSent == prog = "simple" /\ pc = "save"

DiscountOf(p) == IF prog = "scraper" THEN p.discount_percent ELSE p.discount

(* the hot deal at position j is the product at position i *)
IsProduct(j, i) ==
    IF prog = "scraper" THEN hot_deals[j].id = products[i].id
    ELSE hot_deals[j] = products[i]

InHotDeals(i) == \E j \in 1..Len(hot_deals) : IsProduct(j, i)

(* C1: every payload handed to the notifier is at most max_payload_length *)
(* characters long.                                                       *)
C1_PayloadWithinLimit ==
    \A i \in 1..Len(messages) : Len(messages[i].text) <= max_payload_length

UniquenessKey(p) == IF p.url # "" THEN p.url ELSE p.name

(* C3: no two products of all_products share the uniqueness key *)
C3_NoSharedKey ==
    \A i, j \in 1..Len(products) :
        i < j => UniquenessKey(products[i]) # UniquenessKey(products[j])

(* C4: every product has 0 <= discount_percent <= 100 *)
C4_DiscountInRange ==
    \A i \in 1..Len(products) :
        0 <= DiscountOf(products[i]) /\ DiscountOf(products[i]) <= 100

(* C5: an original price that is present is at least the current price *)
C5_OriginalAtLeastCurrent ==
    \A i \in 1..Len(products) :
        LET p == products[i]
        IN  IF prog = "scraper"
            THEN Truthy(p.original_price) => p.original_price[1] >= p.current_price
            ELSE \/ p.original_price[2] = 0
                 \/ /\ p.original_price[2] > 0
                    /\ p.original_price[1] >= p.current_price * p.original_price[2]

(* C6, as claimed, for the discounts up to 100: a product is matched if    *)
(* and only if its discount is at least the threshold.                     *)
C6_MatchedIffAtLeastThreshold ==
    /\ AlertFiltered =>
          \A i \in 1..Len(products) :
              products[i].discount_percent <= 100 =>
                  (InHotDeals(i) <=> products[i].discount_percent >= MIN_DISCOUNT)
    /\ (prog = "simple" /\ pc \in {"send", "save"}) =>
          \A i \in 1..Len(products) :
              products[i].discount <= 100 =>
                  (InHotDeals(i) <=> products[i].discount >= DISCOUNT_THRESHOLD)

(* C6, amended: scraper.py matches a product if and only if                *)
(* MIN_DISCOUNT <= discount_percent <= MAX_DISCOUNT, both ends included,   *)
(* each matched product once; simple_scraper.py matches it if and only if  *)
(* discount >= DISCOUNT_THRESHOLD.                                         *)
C6_MatchedIffInRange ==
    /\ AlertFiltered =>
          /\ \A i \in 1..Len(products) :
                InHotDeals(i) <=> /\ products[i].discount_percent >= MIN_DISCOUNT
                                  /\ products[i].discount_percent <= MAX_DISCOUNT
          /\ \A j, k \in 1..Len(hot_deals) : j # k => hot_deals[j].id # hot_deals[k].id
    /\ (prog = "simple" /\ pc \in {"send", "save"}) =>
          /\ \A i \in 1..Len(products) :
                InHotDeals(i) <=> products[i].discount >= DISCOUNT_THRESHOLD
          /\ Len(hot_deals) = Cardinality({i \in 1..Len(products) :
                                            products[i].discount >= DISCOUNT_THRESHOLD})

(* a product of exactly MIN_DISCOUNT is matched and one of 100 is not *)
C6_Witness ==
    /\ AlertFiltered
    /\ \E i, j \in 1..Len(products) :
          /\ products[i].discount_percent = MIN_DISCOUNT /\ InHotDeals(i)
          /\ products[j].discount_percent = 100 /\ ~InHotDeals(j)

(* the detail payloads of one category, in send order *)
DetailsOf(cat) ==
    LET ofCat(m) == m.kind = "detail" /\ m.cat = cat IN SelectSeq(messages, ofCat)

(* the number of hot deals that categorize_product puts in cat *)
HotIn(cat) == Cardinality({i \in 1..Len(hot_deals) : hot_deals[i].category = cat})

(* C7, as claimed, with k = chunk_size: one summary payload, then exactly  *)
(* ceil(N/k) detail payloads, each of k products except possibly the last. *)
C7_CeilOfAllMatched ==
    AlertSentDeals =>
        /\ messages[1].kind = "summary"
        /\ \A i \in 2..Len(messages) : messages[i].kind = "detail"
        /\ Len(Details) = Ceil(Len(hot_deals), chunk_size)
        /\ \A i \in 1..(Len(Details) - 1) : Len(Details[i].entries) = chunk_size

(* C7, amended: one summary payload, then for each category in             *)
(* category_order that holds n > 0 hot deals exactly ceil(n/chunk_size)    *)
(* detail payloads, each of chunk_size products except the last of the     *)
(* category, which holds the rest.                                         *)
C7_CeilPerCategory ==
    AlertSentDeals =>
        /\ messages[1].kind = "summary"
        /\ \A i \in 2..Len(messages) : messages[i].kind = "detail"
        /\ \A cat \in {"CHEESE", "FOOD", "MEAT", "OTHERS"} :
              LET D == DetailsOf(cat)
                  n == HotIn(cat)
              IN  /\ Len(D) = Ceil(n, chunk_size)
                  /\ \A i \in 1..(Len(D) - 1) : Len(D[i].entries) = chunk_size
                  /\ Len(D) > 0 =>
                        Len(D[Len(D)].entries) = n - chunk_size * (Len(D) - 1)
        /\ \A i, j \in 1..Len(Details) :
              i < j => \E a, b \in 1..Len(category_order) :
                          /\ a <= b
                          /\ category_order[a] = Details[i].cat
                          /\ category_order[b] = Details[j].cat

(* two categories hold hot deals, one of them more than chunk_size, and    *)
(* there are more detail payloads than ceil(N/chunk_size)                  *)
C7_Witness ==
    /\ AlertSentDeals
    /\ \E c1, c2 \in {"CHEESE", "FOOD", "MEAT", "OTHERS"} :
          c1 # c2 /\ Len(DetailsOf(c1)) >= 2 /\ Len(DetailsOf(c2)) >= 1
    /\ Len(Details) > Ceil(Len(hot_deals), chunk_size)

(* "<b>CATEGORY - Items first-last of N</b>", the heading of a detail payload *)
DetailHeading(m, n_hot) ==
    "<b>" \o cat_name(m.cat) \o " - Items " \o ToString(m.entries[1].num) \o "-"
    \o ToString(m.entries[Len(m.entries)].num) \o " of " \o ToString(n_hot) \o "</b>\n"

(* C8: over the detail payloads in send order the numbers shown are 1, 2,  *)
(* ..., N, each once, so each payload starts one above the last number of  *)
(* the payload before it; its heading names its first and last number.     *)
C8_ContinuousNumbering ==
    /\ \A k \in 1..Len(Rendered) : Rendered[k].num = k
    /\ \A i \in 1..Len(Details) :
          /\ Details[i].entries # <<>>
          /\ Prefix(Details[i].text, Len(DetailHeading(Details[i], Len(hot_deals))))
                = DetailHeading(Details[i], Len(hot_deals))
          /\ i > 1 => Details[i].entries[1].num
                        = Details[i - 1].entries[Len(Details[i - 1].entries)].num + 1
    /\ AlertSentDeals => Len(Rendered) = Len(hot_deals)

(* three detail payloads were sent, over two categories, the last of them  *)
(* starting above 2 * chunk_size                                           *)
C8_Witness ==
    /\ AlertSentDeals
    /\ Len(Details) >= 3
    /\ Details[1].cat # Details[Len(Details)].cat
    /\ Details[Len(Details)].entries[1].num > 2 * chunk_size

(* the filter of the program at hand lets no product through *)
NoneMatched ==
    \A i \in 1..Len(products) :
        IF prog = "scraper"
        THEN ~(MIN_DISCOUNT <= products[i].discount_percent
               /\ products[i].discount_percent <= MAX_DISCOUNT)
        ELSE products[i].discount < DISCOUNT_THRESHOLD

ScannedText(n) == "Total products scanned: <b>" \o ToString(n) \o "</b>"

FoundText(n) == "Total products found: " \o ToString(n) \o "\n"

(* C9, as claimed: when no product passes the filter, send_telegram_alert  *)
(* produces exactly one payload, which states the number of products       *)
(* scanned.                                                                *)
C9_OnePayloadAlways ==
    /\ (prog = "scraper" /\ pc = "done" /\ products # <<>> /\ NoneMatched) =>
          /\ Len(messages) = 1
          /\ Contains(messages[1].text, ScannedText(Len(products)))
    /\ (SimpleSent /\ NoneMatched) =>
          /\ Len(messages) = 1
          /\ Contains(messages[1].text, FoundText(Len(products)))

(* C9, amended: when no product passes the filter, send_telegram_alert     *)
(* with both credentials set produces exactly one payload, which states    *)
(* the number of products scanned and is neither summary nor detail; with  *)
(* a credential missing it produces none. send_telegram_message of         *)
(* simple_scraper.py produces exactly one payload, which states the        *)
(* number of products found.                                               *)
C9_OnePayloadWithCredentials ==
    /\ (prog = "scraper" /\ pc = "done" /\ products # <<>> /\ NoneMatched) =>
          IF creds
          THEN /\ Len(messages) = 1
               /\ messages[1].kind = "nodeals"
               /\ Contains(messages[1].text, ScannedText(Len(products)))
          ELSE messages = <<>>
    /\ (SimpleSent /\ NoneMatched) =>
          /\ Len(messages) = 1
          /\ messages[1].kind = "results"
          /\ Contains(messages[1].text, FoundText(Len(products)))

(* two products were scanned, none passed, the one payload went out *)
C9_Witness ==
    /\ prog = "scraper" /\ pc = "done" /\ creds
    /\ Len(products) = 2 /\ NoneMatched
    /\ Len(messages) = 1

(* C10, as claimed: with zero product containers all_products is empty and *)
(* the run emits exactly one payload, which refers to a total of zero.     *)
C10_OnePayloadOfZero ==
    (page = <<>> /\ ((prog = "scraper" /\ pc = "done") \/ SimpleSent)) =>
        /\ products = <<>>
        /\ Len(messages) = 1
        /\ \/ Contains(messages[1].text, ScannedText(0))
           \/ Contains(messages[1].text, FoundText(0))

(* C10, amended: with zero product containers all_products is empty; run   *)
(* of scraper.py with both credentials set emits exactly one payload, the  *)
(* error notification that no products were found, which states no count,  *)
(* and with a credential missing emits none; send_telegram_message of      *)
(* simple_scraper.py produces exactly one payload, which states a total    *)
(* of zero products found.                                                 *)
C10_ErrorNotificationOrZero ==
    /\ (prog = "scraper" /\ page = <<>> /\ pc = "done") =>
          /\ products = <<>>
          /\ IF creds
             THEN /\ Len(messages) = 1
                  /\ messages[1].kind = "error"
                  /\ Contains(messages[1].text, "No products were found on the page")
                  /\ ~Contains(messages[1].text, "Total products")
             ELSE messages = <<>>
    /\ (SimpleSent /\ page = <<>>) =>
          /\ products = <<>>
          /\ Len(messages) = 1
          /\ messages[1].kind = "results"
          /\ Contains(messages[1].text, FoundText(0))

(* the run of scraper.py over a page without containers is over, with      *)
(* credentials, and its one payload went out                               *)
C10_Witness ==
    /\ prog = "scraper" /\ page = <<>> /\ pc = "done" /\ creds
    /\ Len(messages) = 1

(* a keyword of the list occurs in the name at some position, letter by   *)
(* letter, whatever the case of the letters of the name                   *)
OccursAt(name, keyword, at) ==
    /\ at + Len(keyword) - 1 <= Len(name)
    /\ \A j \in 1..Len(keyword) :
          LET c == CharAt(name, at + j - 1)
          IN  (IF c \in UpperChars THEN LowerOf[c] ELSE c) = CharAt(keyword, j)

HasKeyword(name, keywords) ==
    \E k \in 1..Len(keywords) : \E at \in 1..Len(name) : OccursAt(name, keywords[k], at)

(* the category the priority rule gives every product name of the pages *)
PriorityCategory ==
    [name \in ProductNames |->
        IF HasKeyword(name, cheese_keywords) THEN "CHEESE"
        ELSE IF HasKeyword(name, food_keywords) THEN "FOOD"
        ELSE IF HasKeyword(name, meat_keywords) THEN "MEAT"
        ELSE "OTHERS"]

(* C11: categorize_product gives every product exactly one of CHEESE,     *)
(* FOOD, MEAT, OTHERS: CHEESE when the name holds a cheese keyword in any *)
(* letter case, else FOOD when it holds a food keyword, else MEAT when it *)
(* holds a meat keyword, else OTHERS.                                     *)
C11_CategoryByPriority ==
    (prog = "scraper" /\ products # <<>>) =>
        \A i \in 1..Len(products) :
            /\ products[i].category \in {"CHEESE", "FOOD", "MEAT", "OTHERS"}
            /\ products[i].category = PriorityCategory[products[i].name]

(* a cheese name that also holds a food keyword, and a food name that     *)
(* also holds a meat keyword, have been classified                        *)
C11_Witness ==
    /\ prog = "scraper" /\ Len(products) = 2
    /\ HasKeyword(products[1].name, cheese_keywords)
    /\ HasKeyword(products[1].name, food_keywords)
    /\ products[1].category = "CHEESE"
    /\ ~HasKeyword(products[2].name, cheese_keywords)
    /\ HasKeyword(products[2].name, food_keywords)
    /\ HasKeyword(products[2].name, meat_keywords)
    /\ products[2].category = "FOOD"

(* the name and the current price the script reads in every container *)
CandidateName == [e \in Containers |-> name_of(e)]

CandidatePrice == [e \in Containers |-> current_price_of(e)]

(* some source gives the container a discount: a percentage in its text   *)
(* (badge, percent-class element or any other line), or two prices with   *)
(* the original above the current one                                     *)
Resolved ==
    [e \in Containers |->
        \/ match_percent(innerText(e)) # NoMatch
        \/ /\ Truthy(original_price_of(e))
           /\ CandidatePrice[e] # 0
           /\ original_price_of(e)[1] > CandidatePrice[e]]

ValidCandidate(e) == CandidateName[e] # "" /\ CandidatePrice[e] > 0

(* fetch_page returned the products of a page *)
Extraction == prog = "scraper" /\ pc # "run" /\ products_data # <<>>

(* C12, as claimed: a candidate becomes a product only if its name is     *)
(* non-empty, its current price is above 0 and a discount was resolved    *)
(* for it; a candidate with no resolvable discount is not a product.      *)
C12_OnlyResolvedDiscount ==
    Extraction =>
        \A j \in 1..Len(products_data) :
            /\ products_data[j].name # ""
            /\ products_data[j].current_price > 0
            /\ \E i \in 1..Len(page) :
                  /\ CandidateName[page[i]] = products_data[j].name
                  /\ Resolved[page[i]]

(* C12, amended: the products are exactly the candidates with a non-empty *)
(* name and a current price above 0, one product per such candidate; a    *)
(* candidate with no resolvable discount is kept, with discount 0; and    *)
(* process_products makes one Product of every one of them.               *)
C12_ValidNameAndPrice ==
    Extraction =>
        /\ \A j \in 1..Len(products_data) :
              products_data[j].name # "" /\ products_data[j].current_price > 0
        /\ Len(products_data) =
              Cardinality({i \in 1..Len(page) : ValidCandidate(page[i])})
        /\ \A i \in 1..Len(page) :
              ValidCandidate(page[i]) =>
                 \E j \in 1..Len(products_data) :
                    /\ products_data[j].name = CandidateName[page[i]]
                    /\ ~Resolved[page[i]] => products_data[j].discount_percent = 0
        /\ pc # "fetched" => Len(products) = Len(products_data)

(* a page with a candidate without a price, which is dropped, and one     *)
(* without any discount, which is a product of discount 0                 *)
C12_Witness ==
    /\ Extraction /\ pc = "alert"
    /\ Len(page) = 2 /\ Len(products) = 1
    /\ ~ValidCandidate(page[1])
    /\ ValidCandidate(page[2]) /\ ~Resolved[page[2]]
    /\ products[1].discount_percent = 0

(* what each source of a discount matches in a container, in the order of *)
(* the chain: the badge, the first percent-class element holding a        *)
(* percentage, "N% OFF" in the text, any "N%" in the text                 *)
SourceMatches ==
    [e \in Containers |->
        LET holds(t) == match_percent(t) # NoMatch
            els == SelectSeq(e.percentEls, holds)
        IN  << IF e.badge # <<>> THEN match_percent(e.badge[1]) ELSE NoMatch,
               IF els # <<>> THEN match_percent(els[1]) ELSE NoMatch,
               match_percent_off(innerText(e)),
               match_percent(innerText(e)) >>]

(* the discount the two prices give: 0 unless both are known and the      *)
(* original one is the greater                                            *)
PriceDiscount ==
    [e \in Containers |->
        LET o == original_price_of(e)
            c == CandidatePrice[e]
        IN  IF Truthy(o) /\ c # 0 /\ o[1] > c
            THEN (200 * (o[1] - c) + o[1]) \div (2 * o[1])
            ELSE 0]

(* the value of the first of the sources in S, the price discount when S  *)
(* is empty                                                               *)
FirstOf(e, S) == IF S # {} THEN SourceMatches[e][least(S)][1] ELSE PriceDiscount[e]

Matching(e) == {k \in 1..4 : SourceMatches[e][k] # NoMatch}

MatchingNonZero(e) == {k \in Matching(e) : SourceMatches[e][k][1] # 0}

(* the candidate of the page that the product with this name came from *)
CandidatesOf(name) == {i \in 1..Len(page) : CandidateName[page[i]] = name}

(* C13, as claimed: the first source that matches a percentage fixes the  *)
(* discount, also when it matches 0, in the order badge, percent-class    *)
(* element, "N% OFF", any "N%"; the prices are used when none matches.    *)
C13_FirstMatchWins ==
    Extraction =>
        \A j \in 1..Len(products_data) :
            \E i \in CandidatesOf(products_data[j].name) :
                products_data[j].discount_percent = FirstOf(page[i], Matching(page[i]))

(* C13, amended: the first source that matches a percentage other than 0  *)
(* fixes the discount, in the same order; a source that matches 0 counts  *)
(* as no match, and the prices are used when no source gives a value      *)
(* other than 0.                                                          *)
C13_FirstNonZeroMatchWins ==
    Extraction =>
        \A j \in 1..Len(products_data) :
            \E i \in CandidatesOf(products_data[j].name) :
                products_data[j].discount_percent =
                    FirstOf(page[i], MatchingNonZero(page[i]))

(* a candidate whose "N% OFF" line is not the first percentage of its     *)
(* text, and a candidate with no percentage and the prices 30 and 60      *)
C13_Witness ==
    /\ Extraction /\ Len(page) = 2 /\ Len(products_data) = 2
    /\ Matching(page[1]) = {3, 4}
    /\ SourceMatches[page[1]][3] # SourceMatches[page[1]][4]
    /\ products_data[1].discount_percent = SourceMatches[page[1]][3][1]
    /\ Matching(page[2]) = {}
    /\ products_data[2].current_price = 3000
    /\ products_data[2].original_price = <<6000>>
    /\ products_data[2].discount_percent = 50

(* the place of a stage in the pipeline *)
StageRank(stage) ==
    CASE stage = "acquisition" -> 1
      [] stage = "extraction" -> 2
      [] stage = "classification" -> 3
      [] stage = "composition" -> 4
      [] stage = "delivery" -> 5

(* C14, as claimed: the stages are entered in the order acquisition,      *)
(* extraction/processing, classification, composition, delivery, each at  *)
(* most once and none again after a later one, and the classifier runs    *)
(* once on every product.                                                 *)
C14_EachStageOnce ==
    prog = "scraper" =>
        /\ \A i, j \in 1..Len(stages) :
              i < j => StageRank(stages[i]) < StageRank(stages[j])
        /\ \A i \in 1..Len(classified) : classified[i] = 1

(* C14, amended: acquisition is entered first and once; extraction/       *)
(* processing and classification alternate, product by product, inside    *)
(* process_products; once a payload is composed only composition and      *)
(* delivery follow, alternating payload by payload, every delivery right  *)
(* after the composition of its payload; the classifier runs once on      *)
(* every product in process_products and a second time on every matched   *)
(* product in send_telegram_alert.                                        *)
C14_StagesInOrder ==
    prog = "scraper" =>
        /\ \A i \in 1..Len(stages) : stages[i] = "acquisition" <=> i = 1
        /\ \A i, j \in 1..Len(stages) :
              (i < j /\ StageRank(stages[i]) >= 4) => StageRank(stages[j]) >= 4
        /\ \A i \in 1..Len(stages) :
              stages[i] = "delivery" => (i > 1 /\ stages[i - 1] = "composition")
        /\ Cardinality({i \in 1..Len(stages) : stages[i] = "delivery"}) = Len(messages)
        /\ Cardinality({i \in 1..Len(stages) : stages[i] = "classification"})
              \in {0, Len(products)}
        /\ Len(classified) = Len(products)
        /\ \A i \in 1..Len(classified) :
              classified[i] =
                 IF creds /\ pc \in {"details", "done"} /\ InHotDeals(i) THEN 2 ELSE 1

(* a run over two products, one of them matched, is over: processing was  *)
(* entered again after the first classification, and the matched product  *)
(* was classified twice                                                   *)
C14_Witness ==
    /\ prog = "scraper" /\ pc = "done" /\ creds
    /\ Len(products) = 2 /\ Len(hot_deals) = 1
    /\ classified = <<2, 1>>
    /\ stages = <<"acquisition", "extraction", "classification", "extraction",
                  "classification", "composition", "delivery", "composition",
                  "delivery">>

(* the payloads send_telegram_alert composes for its hot deals: the       *)
(* summary and the chunks of every category                               *)
ComposedPayloads ==
    1 + Ceil(Len(categorized["CHEESE"]), chunk_size)
      + Ceil(Len(categorized["FOOD"]), chunk_size)
      + Ceil(Len(categorized["MEAT"]), chunk_size)
      + Ceil(Len(categorized["OTHERS"]), chunk_size)

SomeFailed == \E k \in 1..Len(delivered) : ~delivered[k]

(* C15: whatever the notifier answers, every composed payload is handed   *)
(* to it exactly once: each call of _send_telegram_message has one        *)
(* outcome, no failure raises out of send_telegram_alert, and when the    *)
(* alert has returned the number of attempts is the number of composed    *)
(* payloads, with every hot deal rendered once.                           *)
C15_EveryPayloadAttempted ==
    prog = "scraper" =>
        /\ Len(delivered) = Len(messages)
        /\ pc = "raised" => messages = <<>>
        /\ AlertSentDeals =>
              /\ Len(messages) = ComposedPayloads
              /\ Len(Rendered) = Len(hot_deals)
              /\ \A j \in 1..Len(hot_deals) :
                    Cardinality({k \in 1..Len(Rendered) :
                                    Rendered[k].product.id = hot_deals[j].id}) = 1
        /\ (pc = "done" /\ creds /\ products # <<>> /\ hot_deals = <<>>) =>
              Len(messages) = 1

(* the alert has returned after three payloads, of which the first and    *)
(* the last failed                                                        *)
C15_Witness ==
    /\ AlertSentDeals
    /\ ComposedPayloads = 3
    /\ delivered = <<FALSE, TRUE, FALSE>>
    /\ Len(messages) = 3

(* C16: an original price that has to be derived from the current price   *)
(* and a discount of 100 is absent: the division by 100 - discount is     *)
(* never made with discount = 100, so no product carries an infinite      *)
(* original price.                                                        *)
C16_NoInfiniteOriginal ==
    prog = "simple" =>
        \A i \in 1..Len(products) : products[i].original_price[2] # 0

(* C17: no failure of page acquisition or extraction leaves the pipeline  *)
(* as an exception: fetch_page then returns an empty list with the        *)
(* browser closed, and run sends at most one failure notification,        *)
(* composes no deal payload and returns.                                  *)
C17_NoExceptionVisible ==
    prog = "scraper" =>
        /\ pc # "raised"
        /\ pc # "run" => browser = "closed"
        /\ (pc = "done" /\ products_data = <<>>) =>
              /\ products = <<>>
              /\ Len(messages) <= 1
              /\ \A k \in 1..Len(messages) : messages[k].kind = "error"

(* the name holds a character that is markup in HTML *)
HasMarkup(name) == \E i \in 1..Len(name) : CharAt(name, i) \in {"<", ">", "&"}

(* C18: in every payload sent with parse_mode HTML the product names and  *)
(* their translations are HTML-escaped: a name that holds "<", ">" or "&" *)
(* does not stand in the text as it is.                                   *)
C18_NamesEscaped ==
    \A k \in 1..Len(messages) :
        messages[k].parse_mode = "HTML" =>
            \A i \in 1..Len(products) :
                HasMarkup(products[i].name) =>
                    /\ ~Contains(messages[k].text, products[i].name)
                    /\ ~Contains(messages[k].text, ArabicNames[products[i].name])

(* the priority of the categories: 1 is sent first *)
CategoryPriority(cat) ==
    CASE cat = "CHEESE" -> 1
      [] cat = "FOOD" -> 2
      [] cat = "MEAT" -> 3
      [] cat = "OTHERS" -> 4

(* C19: the summary payload is sent before every detail payload; the      *)
(* detail payloads go out by category, all of CHEESE before any of FOOD,  *)
(* FOOD before MEAT, MEAT before OTHERS; and a category without a matched *)
(* product gets no payload.                                               *)
C19_CategoryPriorityOrder ==
    prog = "scraper" =>
        /\ \A i \in 1..Len(messages) :
              /\ messages[i].kind = "summary" => i = 1
              /\ messages[i].kind = "detail" => (i > 1 /\ messages[1].kind = "summary")
        /\ \A i, j \in 1..Len(messages) :
              (i < j /\ messages[i].kind = "detail" /\ messages[j].kind = "detail")
                 => CategoryPriority(messages[i].cat) <= CategoryPriority(messages[j].cat)
        /\ \A i \in 1..Len(messages) :
              messages[i].kind = "detail" =>
                 /\ messages[i].entries # <<>>
                 /\ \A e \in 1..Len(messages[i].entries) :
                       messages[i].entries[e].product.category = messages[i].cat
        /\ AlertSentDeals =>
              \A cat \in {"CHEESE", "FOOD", "MEAT", "OTHERS"} :
                 (DetailsOf(cat) # <<>>) <=>
                    (\E j \in 1..Len(hot_deals) : hot_deals[j].category = cat)

(* the page shows a matched product of a later category before one of an  *)
(* earlier category; the payloads went out summary, earlier category,     *)
(* later category, and the two other categories got none                  *)
C19_Witness ==
    /\ AlertSentDeals
    /\ Len(hot_deals) = 2 /\ Len(messages) = 3
    /\ CategoryPriority(hot_deals[1].category) > CategoryPriority(hot_deals[2].category)
    /\ messages[2].cat = hot_deals[2].category
    /\ messages[3].cat = hot_deals[1].category

(* the number of the latest scrolls, one after the other, that each saw   *)
(* the height of the scroll before it                                     *)
RECURSIVE EqualRun(_)
EqualRun(heights) ==
    IF Len(heights) < 2 THEN 0
    ELSE IF heights[Len(heights)] # heights[Len(heights) - 1] THEN 0
    ELSE 1 + EqualRun(SubSeq(heights, 1, Len(heights) - 1))

(* C20: the scroll loop makes at most max_scroll_attempts scrolls, its    *)
(* counter is the number of latest consecutive scrolls that saw the       *)
(* height of the scroll before (a scroll that sees another height sets it *)
(* to 0), the loop goes on while that number is under 3 and scrolls are   *)
(* left, it is over before the 50th scroll only when the number is 3,     *)
(* and it always ends.                                                    *)
C20_ScrollLoopTerminates ==
    /\ [](scroll_attempt <= max_scroll_attempts)
    /\ [](pc \in {"scroll", "scrolled"} => same_height_count = EqualRun(observed))
    /\ [](pc = "scroll" => same_height_count < same_height_limit)
    /\ []((pc = "scrolled" /\ scroll_attempt < max_scroll_attempts)
             => same_height_count = same_height_limit)
    /\ <>(pc # "scroll")

(* the loop is over after 6 scrolls: the height changed on the way, and   *)
(* the last three scrolls saw no change                                   *)
C20_Witness ==
    /\ pc = "scrolled"
    /\ scroll_attempt = 6
    /\ same_height_count = same_height_limit
    /\ observed = <<2, 2, 2, 2>>

(* the places (payload, entry) at which the detail payloads show the      *)
(* product of this identity                                               *)
ShownAt(id) ==
    {pos \in UNION {{<<k, e>> : e \in 1..Len(messages[k].entries)} :
                        k \in 1..Len(messages)} :
        messages[pos[1]].entries[pos[2]].product.id = id}

PassesFilter(p) ==
    p.discount_percent >= MIN_DISCOUNT /\ p.discount_percent <= MAX_DISCOUNT

(* C21: the detail payloads partition the matched products: a product     *)
(* that fails the discount filter is in no detail payload, no product is  *)
(* shown twice, every detail payload holds between 1 and chunk_size       *)
(* products, and when the alert has returned every product that passes    *)
(* the filter is in exactly one detail payload, once.                     *)
C21_DetailsPartitionMatched ==
    prog = "scraper" =>
        /\ \A i \in 1..Len(products) :
              /\ Cardinality(ShownAt(products[i].id)) <= 1
              /\ ~PassesFilter(products[i]) => ShownAt(products[i].id) = {}
        /\ \A k \in 1..Len(messages) :
              messages[k].kind = "detail" =>
                 /\ Len(messages[k].entries) >= 1
                 /\ Len(messages[k].entries) <= chunk_size
                 /\ \A e \in 1..Len(messages[k].entries) :
                       \E i \in 1..Len(products) :
                          products[i] = messages[k].entries[e].product
        /\ (pc = "done" /\ creds) =>
              \A i \in 1..Len(products) :
                 PassesFilter(products[i]) =>
                    Cardinality(ShownAt(products[i].id)) = 1

(* the alert has returned on a page with a product that fails the filter  *)
(* and more matched products than one payload takes: a full payload and a *)
(* payload of one product went out                                        *)
C21_Witness ==
    /\ AlertSentDeals
    /\ \E i \in 1..Len(products) : ~PassesFilter(products[i])
    /\ Len(hot_deals) > chunk_size
    /\ \E k \in 1..Len(messages) : Len(messages[k].entries) = chunk_size
    /\ \E k \in 1..Len(messages) : Len(messages[k].entries) = 1

(* the kinds of the notifications sent so far, in the order of sending *)
Kinds == [k \in 1..Len(messages) |-> messages[k].kind]

(* C22: every run of scrape_tamimi_deals sends exactly one notification,   *)
(* the results message or the error message, never both and never none,    *)
(* also when the failure comes after the results message was sent.         *)
C22_ExactlyOneNotification ==
    (prog = "simple" /\ pc \in {"done", "raised"}) =>
        Kinds \in {<<"results">>, <<"error">>}

(* C22 as the code has it: a run that returns after the file was written   *)
(* has sent the results message alone; a run whose try block raised has    *)
(* sent the error message last, alone when the exception came before the   *)
(* results message and after the results message when it came later (while *)
(* writing the file), so such a run sends both; a run whose browser launch *)
(* raised has sent nothing. No step sends more than one message and no run *)
(* sends more than two.                                                    *)
C22_NotificationsByFailurePoint ==
    [][prog = "simple" =>
          /\ (pc = "run" /\ pc' = "raised") => Kinds' = <<>>
          /\ (pc = "run" /\ pc' \in {"send", "except"}) => Kinds' = <<>>
          /\ (pc = "send") => Kinds' = <<"results">>
          /\ (pc = "save" /\ pc' = "done") => Kinds' = <<"results">>
          /\ (pc = "save" /\ pc' = "except") => Kinds' = <<"results">>
          /\ (pc = "except") => /\ pc' = "done"
                                /\ Kinds' = Kinds \o <<"error">>
                                /\ Kinds \in {<<>>, <<"results">>}
          /\ Len(messages') <= Len(messages) + 1]_vars

(* a run that failed while writing the file has sent both messages *)
C22_Witness ==
    /\ prog = "simple" /\ pc = "done"
    /\ Kinds = <<"results", "error">>
    /\ browser = "closed"

====
